---- MODULE Spec2Model ----
(***************************************************************************)
(* Model of the market-data service: the TTL cache (utils/cache.py), the   *)
(* symbol/request resolver, the batch quote fetcher and the rule based     *)
(* summary scorer (services/market.py), and the RSI indicator              *)
(* (services/indicators.py).                                               *)
(*                                                                         *)
(* Conventions.  Python's None and "absent" are the empty sequence <<>>,   *)
(* a present value v is the one-element sequence <<v>> (see None, Some).   *)
(* time() is an integer clock `now` that only a Tick step advances.  A     *)
(* Python dict is a sequence of entries in dict (insertion) order.         *)
(***************************************************************************)
EXTENDS Integers, Sequences, FiniteSets, TLC

VARIABLES
  now,      \* the clock read by time()
  store,    \* cache._store, in dict order: entries [k, ts, v]
  last,     \* the operation that ran last, its arguments and its outcome
  setAt,    \* history: per cache key, the time of the latest TTLCache.set
  setRun,   \* history: the keys set so far, while only distinct keys were set
  fetched,  \* history: key, time and series of the first history request
            \* cached (and of its latest caching since)
  q,        \* the running fetch_quotes call: its position, locals and result
  summary,  \* the last rule_based_summary: the metrics it read and its result
  ind,      \* the last compute_all_indicators: its closes and its RSI output
  th        \* per concurrent caller of the cache: its position and locals

vars == <<now, store, last, setAt, setRun, fetched, q, summary, ind, th>>

(***************************************************************************)
(* Bounds of the model.                                                    *)
(***************************************************************************)
MaxTime == 2
ttl == 1
maxsize == 2

\* The concurrent callers of the shared cache.
Threads == {1, 2}

\* Keys and values of the stand-alone cache: one key more than fits.
CacheKeys == 1..(maxsize + 1)
CacheVals == {"v1", "v2"}

None == <<>>
Some(v) == <<v>>

Range(s) == {s[i] : i \in 1..Len(s)}

(***************************************************************************)
(* utils/cache.py : TTLCache                                               *)
(***************************************************************************)

\* self._store.get(key): the index of key's entry in the dict, 0 if none.
Find(s, k) ==
  IF \E i \in 1..Len(s) : s[i].k = k
  THEN CHOOSE i \in 1..Len(s) : s[i].k = k
  ELSE 0

\* self._store.pop(key, None)
Pop(s, k) == SelectSeq(s, LAMBDA e : e.k # k)

\* A wrong eviction choice: the entry inserted last instead of first.
NewestKey(s) ==
  LET i == CHOOSE i \in 1..Len(s) :
             /\ \A j \in 1..Len(s) : s[i].ts >= s[j].ts
             /\ \A j \in (i+1)..Len(s) : s[j].ts < s[i].ts
  IN s[i].k

\* min(self._store.items(), key=lambda kv: kv[1][0])[0] : the first entry,
\* in dict order, whose insertion time is minimal.
OldestKey(s) ==
  LET i == CHOOSE i \in 1..Len(s) :
             /\ \A j \in 1..Len(s) : s[i].ts <= s[j].ts
             /\ \A j \in 1..(i-1) : s[j].ts > s[i].ts
  IN s[i].k

\* self._store[key] = (ts, value): an existing key keeps its dict position.
Put(s, k, t, v) ==
  LET i == Find(s, k)
      e == [k |-> k, ts |-> t, v |-> v]
  IN IF i = 0 THEN Append(s, e) ELSE [s EXCEPT ![i] = e]

\* A wrong get: a hit renews the insertion time of the entry it read.
TTLGetRefresh(s, k, t) ==
  LET i == Find(s, k) IN
  IF i = 0
  THEN [ret |-> None, store |-> s, path |-> "miss"]
  ELSE IF t - s[i].ts > ttl
       THEN [ret |-> None, store |-> Pop(s, k), path |-> "expired"]
       ELSE [ret |-> Some(s[i].v), store |-> [s EXCEPT ![i].ts = t],
             path |-> "hit"]

\* A wrong get: an expired entry takes the whole store with it.
TTLGetClear(s, k, t) ==
  LET i == Find(s, k) IN
  IF i = 0
  THEN [ret |-> None, store |-> s, path |-> "miss"]
  ELSE IF t - s[i].ts > ttl
       THEN [ret |-> None, store |-> <<>>, path |-> "expired"]
       ELSE [ret |-> Some(s[i].v), store |-> s, path |-> "hit"]

\* A wrong expiry test: an entry of age exactly ttl is already expired.
TTLGetEarly(s, k, t) ==
  LET i == Find(s, k) IN
  IF i = 0
  THEN [ret |-> None, store |-> s, path |-> "miss"]
  ELSE IF t - s[i].ts >= ttl
       THEN [ret |-> None, store |-> Pop(s, k), path |-> "expired"]
       ELSE [ret |-> Some(s[i].v), store |-> s, path |-> "hit"]

\* TTLCache.get at time t: the value returned, the store afterwards and the
\* return statement taken.
TTLGet(s, k, t) ==
  LET i == Find(s, k) IN
  IF i = 0
  THEN [ret |-> None, store |-> s, path |-> "miss"]
  ELSE IF t - s[i].ts > ttl
       THEN [ret |-> None, store |-> Pop(s, k), path |-> "expired"]
       ELSE [ret |-> Some(s[i].v), store |-> s, path |-> "hit"]

\* A wrong capacity test: eviction starts one entry too late.
TTLSetLate(s, k, v, t) ==
  LET s1 == IF Len(s) > maxsize THEN Pop(s, OldestKey(s)) ELSE s
  IN Put(s1, k, t, v)

\* TTLCache.set at time t: the store afterwards.
TTLSet(s, k, v, t) ==
  LET s1 == IF Len(s) >= maxsize THEN Pop(s, OldestKey(s)) ELSE s
  IN Put(s1, k, t, v)

(***************************************************************************)
(* The cache on its own: callers set and get keys while time passes.       *)
(***************************************************************************)
Tick ==
  /\ now < MaxTime
  /\ now' = now + 1
  /\ last' = [op |-> "idle"]
  /\ UNCHANGED <<ind, th, store, setAt, setRun, fetched, q, summary>>

CacheSet(k, v) ==
  /\ store' = TTLSet(store, k, v, now)
  /\ last' = [op |-> "set", key |-> k, val |-> v]
  /\ setAt' = [setAt EXCEPT ![k] = Some(now)]
  /\ setRun' = IF setRun.ok /\ k \notin Range(setRun.keys)
               THEN [setRun EXCEPT !.keys = Append(@, k)]
               ELSE [ok |-> FALSE, keys |-> <<>>]
  /\ UNCHANGED <<ind, th, now, fetched, q, summary>>

CacheGet(k) ==
  LET r == TTLGet(store, k, now) IN
  /\ store' = r.store
  /\ last' = [op |-> "get", key |-> k, ret |-> r.ret, path |-> r.path]
  /\ setRun' = [ok |-> FALSE, keys |-> <<>>]
  /\ UNCHANGED <<ind, th, now, setAt, fetched, q, summary>>

InitCache ==
  /\ now = 0
  /\ store = <<>>
  /\ last = [op |-> "idle"]
  /\ setAt = [k \in CacheKeys |-> None]
  /\ setRun = [ok |-> TRUE, keys |-> <<>>]
  /\ fetched = None
  /\ q = [pc |-> "idle"]
  /\ summary = [op |-> "idle"]
  /\ ind = [op |-> "idle"]
  /\ th = [t \in Threads |-> [pc |-> "idle"]]

NextCache ==
  \/ Tick
  \/ \E k \in CacheKeys, v \in CacheVals : CacheSet(k, v)
  \/ \E k \in CacheKeys : CacheGet(k)

SpecCache == InitCache /\ [][NextCache]_vars

Keys(s) == {e.k : e \in Range(s)}

\* C1: TTLCache.get(key) returns the stored value exactly while
\* now - insertion_time <= ttl; it returns absent for a key that was never
\* set and for an entry older than ttl, which that get removes (and nothing
\* else).  A get right after set(k, v) returns v, and a get issued more than
\* ttl after the latest set of its key returns absent.
C1_GetContract ==
  [][last'.op = "get" =>
      LET k == last'.key
          es == {e \in Range(store) : e.k = k}
      IN /\ es = {} => last'.ret = None /\ store' = store
         /\ \A e \in es :
              /\ now - e.ts <= ttl => last'.ret = Some(e.v) /\ store' = store
              /\ now - e.ts > ttl => /\ last'.ret = None
                                     /\ Range(store') = Range(store) \ {e}
                                     /\ Len(store') = Len(store) - 1
         /\ setAt[k] = None => last'.ret = None
         /\ (setAt[k] # None /\ now - setAt[k][1] > ttl) => last'.ret = None
         /\ (last.op = "set" /\ last.key = k) => last'.ret = Some(last.val)
  ]_vars

\* A get found its key's entry older than ttl, returned absent and removed it.
C1_Witness ==
  /\ last.op = "get" /\ last.path = "expired" /\ last.ret = None
  /\ setAt[last.key] # None /\ now - setAt[last.key][1] > ttl
  /\ last.key \notin Keys(store)

\* C2: TTLCache.set of a new key into a store holding maxsize entries evicts
\* exactly one entry, one of smallest insertion time, and inserts the new
\* key; setting maxsize + 1 distinct keys in sequence into an empty cache
\* leaves maxsize entries: the first key is gone, all later ones are there.
C2_EvictOldest ==
  /\ [][(last'.op = "set" /\ last'.key \notin Keys(store) /\ Len(store) = maxsize) =>
          \E o \in Range(store) :
            /\ \A e \in Range(store) : o.ts <= e.ts
            /\ Range(store') = (Range(store) \ {o})
                  \cup {[k |-> last'.key, ts |-> now, v |-> last'.val]}
            /\ Len(store') = maxsize
     ]_vars
  /\ [](setRun.ok /\ Len(setRun.keys) = maxsize + 1 =>
          /\ Len(store) = maxsize
          /\ setRun.keys[1] \notin Keys(store)
          /\ \A i \in 2..(maxsize + 1) : setRun.keys[i] \in Keys(store))

\* maxsize + 1 distinct keys were set in sequence, the last one evicting.
C2_Witness ==
  /\ setRun.ok /\ Len(setRun.keys) = maxsize + 1
  /\ last.op = "set" /\ last.key = setRun.keys[maxsize + 1]
  /\ Len(store) = maxsize

\* C12: TTLCache.set on a key that is already in the store evicts nothing,
\* even when the store holds maxsize entries: the key set stays the same and
\* every entry of another key is unchanged.
C12_ResetEvictsNothing ==
  [][(last'.op = "set" /\ last'.key \in Keys(store)) =>
        /\ Keys(store') = Keys(store)
        /\ \A e \in Range(store) : e.k # last'.key => e \in Range(store')
    ]_vars

\* C13: TTLCache.get on an unexpired key leaves the whole store unchanged,
\* insertion times included; so a get does not protect an entry: the entry
\* just read is the one evicted by the next set of a new key into the full
\* store when its insertion time is the smallest.
C13_GetLeavesStore ==
  [][/\ (last'.op = "get" /\ last'.path = "hit") => store' = store
     /\ ( /\ last.op = "get" /\ last.path = "hit"
          /\ last'.op = "set" /\ last'.key \notin Keys(store)
          /\ Len(store) = maxsize
          /\ \A e \in Range(store) :
                e.k # last.key => e.ts > store[Find(store, last.key)].ts )
        => /\ last.key \notin Keys(store')
           /\ Range(store') = {e \in Range(store) : e.k # last.key}
                 \cup {[k |-> last'.key, ts |-> now, v |-> last'.val]}
    ]_vars

\* A get, later than the insertion, hit the entry of smallest insertion time
\* in a full store.
C13_Witness ==
  /\ last.op = "get" /\ last.path = "hit"
  /\ Len(store) = maxsize
  /\ now > store[Find(store, last.key)].ts
  /\ \A e \in Range(store) :
        e.k # last.key => e.ts > store[Find(store, last.key)].ts

\* C20: under any sequence of set and get on a cache that starts empty, the
\* store never holds more than maxsize entries and no key has two entries.
C20_SizeAndUniqueKeys ==
  /\ Len(store) <= maxsize
  /\ \A i, j \in 1..Len(store) : store[i].k = store[j].k => i = j

\* Every key has been set, one more than fits, and the store is full.
C20_Witness ==
  /\ \A k \in CacheKeys : setAt[k] # None
  /\ last.op = "set"
  /\ Len(store) = maxsize

(***************************************************************************)
(* services/market.py : the symbol/request resolver.                       *)
(* A symbol is a sequence of characters.  The provider (yfinance) is the   *)
(* environment: what each of its calls returns or raises is an input of    *)
(* the operation that makes the call.                                      *)
(***************************************************************************)
RawSymbols == { <<"a">>, <<" ", "A", " ">>, <<"b", ".", "x">> }
Requests == { <<"1y", "1d">>, <<"6mo", "1d">> }

\* str.strip()
IsSpace(c) == c \in {" "}

RECURSIVE LStrip(_)
LStrip(s) == IF s # <<>> /\ IsSpace(Head(s)) THEN LStrip(Tail(s)) ELSE s

RECURSIVE RStrip(_)
RStrip(s) ==
  IF s # <<>> /\ IsSpace(s[Len(s)]) THEN RStrip(SubSeq(s, 1, Len(s) - 1)) ELSE s

Strip(s) == RStrip(LStrip(s))

\* str.upper()
UpperChar(c) ==
  CASE c = "a" -> "A"
    [] c = "b" -> "B"
    [] c = "x" -> "X"
    [] OTHER -> c

Upper(s) == [i \in 1..Len(s) |-> UpperChar(s[i])]

\* A wrong normalisation: trimmed but not upper-cased.
NormalizeNoUpper(symbol) == Strip(symbol)

\* _normalize_symbol
normalize_symbol(symbol) == Upper(Strip(symbol))

\* f"hist:{symbol}:{period}:{interval}" and f"info:{symbol}"
HistKey(sym, period, interval) == <<"hist", sym, period, interval>>
InfoKey(sym) == <<"info", sym>>

\* A wrong candidate list: the BSE suffix tried before the NSE suffix.
CandidatesSwapped(sym) ==
  IF "." \in Range(sym)
  THEN <<sym>>
  ELSE <<sym, sym \o <<".", "B", "O">>, sym \o <<".", "N", "S">> >>

\* [symbol] if '.' in symbol else [symbol, f"{symbol}.NS", f"{symbol}.BO"]
Candidates(sym) ==
  IF "." \in Range(sym)
  THEN <<sym>>
  ELSE <<sym, sym \o <<".", "N", "S">>, sym \o <<".", "B", "O">> >>

\* A wrong fallback list: the last fallback is missing.
CombosShort(period, interval) ==
  << <<period, interval>>, <<"6mo", "1d">>, <<"3mo", "1d">>, <<"1mo", "1d">>,
     <<"1y", "1wk">> >>

\* combos of fetch_history
Combos(period, interval) ==
  << <<period, interval>>, <<"6mo", "1d">>, <<"3mo", "1d">>, <<"1mo", "1d">>,
     <<"1y", "1wk">>, <<"max", "1wk">> >>

\* A wrong loop nesting: combo-major instead of candidate-major.
RECURSIVE LadderComboMajor(_, _)
LadderComboMajor(cands, combos) ==
  IF combos = <<>>
  THEN <<>>
  ELSE [i \in 1..Len(cands) |-> <<cands[i], Head(combos)[1], Head(combos)[2]>>]
         \o LadderComboMajor(cands, Tail(combos))

\* for cand in candidates: for p, iv in combos: the pairs in loop order
RECURSIVE Ladder(_, _)
Ladder(cands, combos) ==
  IF cands = <<>>
  THEN <<>>
  ELSE [j \in 1..Len(combos) |-> <<Head(cands), combos[j][1], combos[j][2]>>]
         \o Ladder(Tail(cands), combos)

\* What one Ticker.history call does: it raises, or returns None, an empty
\* frame or a frame of closes.
Raise == [kind |-> "raise"]
Ret(v) == [kind |-> "ret", v |-> v]
Series == { <<1>>, <<1, 2>> }
ProviderHistory ==
  {Raise, Ret(None), Ret(Some(<<>>))} \cup {Ret(Some(d)) : d \in Series}

\* _fetch_hist_once on a call that returned r
fetch_hist_once(r) ==
  IF r.v = None \/ r.v[1] = <<>> THEN <<>> ELSE r.v[1]

\* A wrong emptiness test: every frame counts as data.
NeverEmpty(df) == FALSE

\* df.empty
empty(df) == df = <<>>

\* The provider calls of one fetch_history: the first n pairs of the ladder,
\* all answered with an empty frame but the last, answered with res.
CallLog(lad, n, res) ==
  [i \in 1..n |-> [cand |-> lad[i][1], p |-> lad[i][2], iv |-> lad[i][3],
                   res |-> IF i < n THEN Ret(<<>>) ELSE res]]

\* The caller is sequential: it starts an operation only after it has taken
\* the result of the one before.
Ready == last.op = "idle"

Return ==
  /\ ~Ready
  /\ last' = [op |-> "idle"]
  /\ UNCHANGED <<ind, th, now, store, setAt, setRun, fetched, q, summary>>

\* fetch_history.  On a cache miss the provider answers the first n - 1
\* calls with an empty frame and the n-th call with raw.
fetch_history(symbol, period, interval, n, raw) ==
  LET sym == normalize_symbol(symbol)
      key == HistKey(sym, period, interval)
      g == TTLGet(store, key, now)
      ladder == Ladder(Candidates(sym), Combos(period, interval))
      df == fetch_hist_once(raw)
      call == [op |-> "fetch_history", symbol |-> symbol, period |-> period,
               interval |-> interval]
      calls(res) == CallLog(ladder, n, res)
  IN
  /\ Ready
  /\ UNCHANGED <<ind, th, now, setAt, setRun, q, summary>>
  /\ IF g.ret # None
     THEN /\ n = 1 /\ raw = Raise
          /\ store' = g.store
          /\ last' = call @@ [outcome |-> "hit", ret |-> g.ret[1],
                              calls |-> <<>>, tried |-> <<>>]
          /\ UNCHANGED fetched
     ELSE /\ n \in 1..Len(ladder)
          /\ IF raw.kind = "raise"
             THEN /\ store' = g.store
                  /\ last' = call @@ [outcome |-> "raised", ret |-> <<>>,
                                      calls |-> calls(Raise), tried |-> <<>>]
                  /\ UNCHANGED fetched
             ELSE IF ~empty(df)
             THEN /\ store' = TTLSet(g.store, key, df, now)
                  /\ last' = call @@ [outcome |-> "ok", ret |-> df,
                                      calls |-> calls(Ret(df)), tried |-> <<>>]
                  /\ fetched' = IF fetched = None \/ fetched[1].key = key
                                THEN Some([key |-> key, ts |-> now, v |-> df])
                                ELSE fetched
             ELSE /\ n = Len(ladder)
                  /\ store' = g.store
                  /\ last' = call @@ [outcome |-> "notfound", ret |-> <<>>,
                                      calls |-> calls(Ret(df)), tried |-> ladder]
                  /\ UNCHANGED fetched

InitResolver ==
  /\ now = 0
  /\ store = <<>>
  /\ last = [op |-> "idle"]
  /\ setAt = <<>>
  /\ setRun = [ok |-> FALSE, keys |-> <<>>]
  /\ fetched = None
  /\ q = [pc |-> "idle"]
  /\ summary = [op |-> "idle"]
  /\ ind = [op |-> "idle"]
  /\ th = [t \in Threads |-> [pc |-> "idle"]]

\* The longest ladder: three candidates times six combos.
MaxCalls == Len(Ladder(Candidates(<<"A">>), Combos("1y", "1d")))

\* The resolver's ladder: every way the provider can answer along it.
NextLadder ==
  \/ Return
  \/ /\ Ready
     /\ \E symbol \in RawSymbols, rq \in Requests, n \in 1..MaxCalls,
           raw \in ProviderHistory :
          fetch_history(symbol, rq[1], rq[2], n, raw)

SpecLadder == InitResolver /\ [][NextLadder]_vars

(***************************************************************************)
(* fetch_info.  A dict is a function from field names to values.           *)
(***************************************************************************)
EmptyMap == [f \in {} |-> 0]
FastMaps == {EmptyMap, ("marketCap" :> 1) @@ ("currency" :> "INR")}
FullMaps == {EmptyMap, ("marketCap" :> 2) @@ ("trailingPe" :> 3)}

\* What reading Ticker.fast_info and Ticker.info can do: raise, or return
\* None (no dict) or a dict.
ProviderFast == {Raise, Ret(None)} \cup {Ret(Some(m)) : m \in FastMaps}
ProviderFull == {Raise, Ret(None)} \cup {Ret(Some(m)) : m \in FullMaps}

\* t.fast_info or {}
OrEmpty(r) == IF r.v = None THEN EmptyMap ELSE r.v[1]

\* A wrong merge: entries already present win over the update.
UpdateKeepOld(info, d) == info @@ d

\* info.update(d)
Update(info, d) == d @@ info

\* One pass of the candidate loop body for a candidate whose fast_info read
\* returned fi and whose info read did `full`: the dict afterwards.
MergeInfo(info, fi, full) ==
  LET info1 == Update(info, OrEmpty(fi))
  IN IF full.kind = "raise" \/ full.v = None
     THEN info1
     ELSE Update(info1, full.v[1])

\* fetch_info.  On a cache miss the first m candidates yield nothing (their
\* lookup raises when nothing = Raise, else it returns no data), the next
\* one, if any, reads fi and full.
fetch_info(symbol, m, nothing, fi, full) ==
  LET sym == normalize_symbol(symbol)
      key == InfoKey(sym)
      g == TTLGet(store, key, now)
      cands == Candidates(sym)
      call == [op |-> "fetch_info", symbol |-> symbol]
  IN
  /\ Ready
  /\ UNCHANGED <<ind, th, now, setAt, setRun, fetched, q, summary>>
  /\ IF g.ret # None
     THEN /\ m = 0 /\ nothing = Raise /\ fi = Raise /\ full = Raise
          /\ store' = g.store
          /\ last' = call @@ [outcome |-> "hit", ret |-> g.ret[1], calls |-> <<>>,
                              skipped |-> nothing, fi |-> fi, full |-> full]
     ELSE /\ m \in 0..Len(cands)
          /\ IF nothing.kind = "raise" THEN TRUE
             ELSE MergeInfo(EmptyMap, nothing, Ret(None)) = EmptyMap
          /\ IF m = Len(cands)
             THEN /\ fi = Raise /\ full = Raise
                  /\ store' = g.store
                  /\ last' = call @@ [outcome |-> "error", ret |-> EmptyMap,
                                      calls |-> cands,
                                      skipped |-> nothing, fi |-> fi, full |-> full]
             ELSE LET info == MergeInfo(EmptyMap, fi, full) IN
                  /\ fi.kind = "ret"
                  /\ info # EmptyMap
                  /\ store' = TTLSet(g.store, key, info, now)
                  /\ last' = call @@ [outcome |-> "ok", ret |-> info,
                                      calls |-> SubSeq(cands, 1, m + 1),
                                      skipped |-> nothing, fi |-> fi, full |-> full]

\* The resolver behind the cache while time passes.  The provider answers a
\* history request at the first pair or at the last pair of the ladder.

NextResolver ==
  \/ Ready /\ Tick
  \/ Return
  \/ /\ Ready
     /\ \E symbol \in RawSymbols, rq \in Requests, raw \in ProviderHistory :
          \E n \in {1, Len(Candidates(normalize_symbol(symbol))) * Len(Combos(rq[1], rq[2]))} :
            fetch_history(symbol, rq[1], rq[2], n, raw)

SpecResolver == InitResolver /\ [][NextResolver]_vars

\* Fundamentals behind the cache while time passes.
NextInfo ==
  \/ Ready /\ Tick
  \/ Return
  \/ /\ Ready
     /\ \E symbol \in RawSymbols, m \in 0..Len(Candidates(<<"A">>)),
           nothing \in {Raise, Ret(None), Ret(Some(EmptyMap))},
           fi \in ProviderFast, full \in ProviderFull :
          fetch_info(symbol, m, nothing, fi, full)

SpecInfo == InitResolver /\ [][NextInfo]_vars

(***************************************************************************)
(* Properties of fetch_history.                                            *)
(***************************************************************************)
\* The key a request is cached under: the trimmed, upper-cased symbol as
\* given, with the period and the interval as requested.
RequestKey(l) == <<"hist", Upper(Strip(l.symbol)), l.period, l.interval>>

\* C3 as stated: a series cached by a successful fetch_history is returned,
\* with no provider call, by any later fetch_history for the same
\* normalised symbol, period and interval made within ttl of the caching.
\* (Stated for the first request cached in a run.)
C3_AnyLaterCallHits ==
  [][(last'.op = "fetch_history" /\ fetched # None) =>
       ((RequestKey(last') = fetched[1].key /\ now - fetched[1].ts <= ttl) =>
          /\ last'.outcome = "hit"
          /\ last'.ret = fetched[1].v
          /\ last'.calls = <<>>)
  ]_vars

\* C3, amended: a successful fetch_history stores the returned series under
\* the key of the normalised original symbol and the requested period and
\* interval; a later fetch_history for that key, made within ttl while the
\* entry is still in the store (not evicted by the maxsize limit), returns
\* the cached series, makes no provider call and leaves the store alone.
C3_CachedUnderRequestKey ==
  /\ [](last.op = "fetch_history" /\ last.outcome = "ok" =>
          /\ [k |-> RequestKey(last), ts |-> now, v |-> last.ret] \in Range(store)
          /\ last.ret # <<>>)
  /\ [][last'.op = "fetch_history" =>
          \A e \in Range(store) :
            (e.k = RequestKey(last') /\ now - e.ts <= ttl) =>
              /\ last'.outcome = "hit"
              /\ last'.ret = e.v
              /\ last'.calls = <<>>
              /\ store' = store
              /\ (fetched # None /\ fetched[1].key = e.k) => e.v = fetched[1].v
     ]_vars

\* A request given as " A " hit the series cached first in the run, under
\* the key of the normalised symbol.
C3_Witness ==
  /\ last.op = "fetch_history" /\ last.outcome = "hit"
  /\ last.symbol = <<" ", "A", " ">>
  /\ fetched # None /\ fetched[1].key = RequestKey(last)
  /\ fetched[1].v = last.ret

\* The pair tried at position i (from 1) of a candidate-major walk.
PairAt(cands, combos, i) ==
  LET c == ((i - 1) \div Len(combos)) + 1
      j == ((i - 1) % Len(combos)) + 1
  IN <<cands[c], combos[j][1], combos[j][2]>>

\* The candidates and the combos in the order the resolver is to try them.
CandidateOrder(l) ==
  LET sym == Upper(Strip(l.symbol))
  IN IF \E i \in 1..Len(sym) : sym[i] = "."
     THEN <<sym>>
     ELSE <<sym, sym \o <<".", "N", "S">>, sym \o <<".", "B", "O">> >>

ComboOrder(l) ==
  << <<l.period, l.interval>>, <<"6mo", "1d">>, <<"3mo", "1d">>, <<"1mo", "1d">>,
     <<"1y", "1wk">>, <<"max", "1wk">> >>

\* C4: on a cache miss fetch_history calls the provider pair by pair in
\* candidate-major order, the combos being the requested one and then
\* (6mo,1d), (3mo,1d), (1mo,1d), (1y,1wk), (max,1wk); every call before the
\* last one came back empty, and when a series is returned it is the
\* non-empty result of the last call made.
C4_LadderOrder ==
  (last.op = "fetch_history" /\ last.outcome # "hit") =>
    LET c == last.calls
        cands == CandidateOrder(last)
        combos == ComboOrder(last)
    IN /\ Len(c) >= 1 /\ Len(c) <= Len(cands) * Len(combos)
       /\ \A i \in 1..Len(c) :
            /\ <<c[i].cand, c[i].p, c[i].iv>> = PairAt(cands, combos, i)
            /\ i < Len(c) => c[i].res = Ret(<<>>)
       /\ last.outcome = "ok" =>
            /\ last.ret # <<>>
            /\ c[Len(c)].res = Ret(last.ret)

\* The series came from the second combo of the second candidate.
C4_Witness ==
  /\ last.op = "fetch_history" /\ last.outcome = "ok"
  /\ Len(last.calls) = 8
  /\ last.calls[8].cand = <<"A", ".", "N", "S">>
  /\ last.calls[8].p = "6mo"

\* C5: fetch_history fails with the not-found error exactly when all pairs
\* came back empty, and the error lists every pair in the order tried: 18
\* entries for a symbol without a suffix, 6 for a symbol with one.
C5_NotFoundListsAll ==
  last.op = "fetch_history" =>
    LET cands == CandidateOrder(last)
        combos == ComboOrder(last)
        total == IF Len(cands) = 1 THEN 6 ELSE 18
        allEmpty == /\ Len(last.calls) = total
                    /\ \A i \in 1..total : last.calls[i].res = Ret(<<>>)
    IN /\ last.outcome = "notfound" <=> allEmpty
       /\ last.outcome = "notfound" =>
            /\ Len(last.tried) = total
            /\ \A i \in 1..total : last.tried[i] = PairAt(cands, combos, i)

\* Both sizes of the attempted list occur.
C5_Witness ==
  /\ last.op = "fetch_history" /\ last.outcome = "notfound"
  /\ Len(last.tried) = 18
  /\ last.tried[18] = << <<"A", ".", "B", "O">>, "max", "1wk" >>

\* C6: a provider call that raises is handled like an empty result, so no
\* fetch_history ends with the provider's exception reaching the caller.
C6_RaiseIsCaught ==
  last.op = "fetch_history" => last.outcome # "raised"

(***************************************************************************)
(* Properties of fetch_info.                                               *)
(***************************************************************************)
\* C7: on a cache miss fetch_info tries the candidates in order, skipping
\* those that raise or yield nothing, and stops at the first whose merge of
\* the fast-info mapping with the full info mapping (when that is a mapping;
\* its entries win) is non-empty; that result is returned and cached under
\* the normalised original symbol.  If no candidate yields anything
\* fetch_info fails and the cache holds nothing for the symbol.
C7_InfoResolution ==
  (last.op = "fetch_info" /\ last.outcome # "hit") =>
    LET cands == CandidateOrder(last)
        key == <<"info", Upper(Strip(last.symbol))>>
        F == IF last.fi.v = None THEN EmptyMap ELSE last.fi.v[1]
        G == IF last.full.kind = "raise" THEN EmptyMap
             ELSE IF last.full.v = None THEN EmptyMap ELSE last.full.v[1]
    IN /\ Len(last.calls) \in 1..Len(cands)
       /\ \A i \in 1..Len(last.calls) : last.calls[i] = cands[i]
       /\ last.outcome \in {"ok", "error"}
       /\ last.outcome = "ok" =>
            /\ DOMAIN last.ret = DOMAIN F \cup DOMAIN G
            /\ DOMAIN last.ret # {}
            /\ \A f \in DOMAIN last.ret :
                 last.ret[f] = IF f \in DOMAIN G THEN G[f] ELSE F[f]
            /\ [k |-> key, ts |-> now, v |-> last.ret] \in Range(store)
       /\ last.outcome = "error" =>
            /\ Len(last.calls) = Len(cands)
            /\ key \notin Keys(store)

\* The first two candidates raised; the third gave both mappings, and the
\* full one's market cap replaced the fast one's.
C7_Witness ==
  /\ last.op = "fetch_info" /\ last.outcome = "ok"
  /\ Len(last.calls) = 3 /\ last.skipped = Raise
  /\ DOMAIN last.ret = {"marketCap", "currency", "trailingPe"}
  /\ last.ret["marketCap"] = 2
  /\ \E e \in Range(store) : e.k = <<"info", <<"A">>>> /\ e.v = last.ret

\* C21: within one fetch_history call no (candidate, period, interval)
\* triple is sent to the provider twice, also when the requested combo is
\* one of the fixed fallbacks, and the call makes at most 6 provider calls
\* per candidate.
C21_NoRepeatedCall ==
  last.op = "fetch_history" =>
    /\ Len(last.calls) <= 6 * Len(CandidateOrder(last))
    /\ \A i, j \in 1..Len(last.calls) :
         ( /\ last.calls[i].cand = last.calls[j].cand
           /\ last.calls[i].p = last.calls[j].p
           /\ last.calls[i].iv = last.calls[j].iv ) => i = j

\* C18: a fetch_history that fails with every pair empty sets nothing in the
\* cache: no entry is added or changed, and every unexpired entry, a series
\* cached earlier for another request of the same symbol included, is still
\* there with its value and insertion time.
C18_FailureKeepsCache ==
  [][(last'.op = "fetch_history" /\ last'.outcome = "notfound") =>
        /\ Range(store') \subseteq Range(store)
        /\ \A e \in Range(store) : now - e.ts <= ttl => e \in Range(store')
        /\ \A i, j \in 1..Len(store') : store'[i].k = store'[j].k => i = j
    ]_vars

\* A request failed while the cache held an unexpired series of another
\* request of the same symbol.
C18_Witness ==
  /\ last.op = "fetch_history" /\ last.outcome = "notfound"
  /\ \E e \in Range(store) :
        /\ e.k[1] = "hist" /\ e.k[2] = Upper(Strip(last.symbol))
        /\ e.k # RequestKey(last)
        /\ now - e.ts <= ttl

(***************************************************************************)
(* fetch_history and fetch_info, in any sequence, on the one shared cache.  *)
(* The provider answers a history request at the first pair or at the last *)
(* pair of the ladder.  The clock stands still: what a call stores does    *)
(* not depend on the time, and expiry only removes entries.                *)
(***************************************************************************)
NextShared ==
  \/ Return
  \/ /\ Ready
     /\ \E symbol \in RawSymbols, rq \in Requests, raw \in ProviderHistory :
          \E n \in {1, Len(Candidates(normalize_symbol(symbol))) * Len(Combos(rq[1], rq[2]))} :
            fetch_history(symbol, rq[1], rq[2], n, raw)
  \/ /\ Ready
     /\ \E symbol \in RawSymbols, m \in 0..Len(Candidates(<<"A">>)),
           nothing \in {Raise, Ret(None), Ret(Some(EmptyMap))},
           fi \in ProviderFast, full \in ProviderFull :
          fetch_info(symbol, m, nothing, fi, full)

SpecShared == InitResolver /\ [][NextShared]_vars

\* C22: in the shared cache every value under a history key is a non-empty
\* series and every value under an info key is a non-empty mapping, so a
\* cache hit of fetch_history or fetch_info never returns empty data.
C22_CachedNonEmpty ==
  /\ \A i \in 1..Len(store) :
        /\ store[i].k[1] = "hist" => Len(store[i].v) >= 1
        /\ store[i].k[1] = "info" => DOMAIN store[i].v # {}
  /\ (last.op = "fetch_history" /\ last.outcome = "hit") => Len(last.ret) >= 1
  /\ (last.op = "fetch_info" /\ last.outcome = "hit") => DOMAIN last.ret # {}

\* The cache holds a series and an info dict, and the call before was a
\* fetch_history that found nothing and cached nothing.
C22_Witness ==
  /\ last.op = "fetch_history" /\ last.outcome = "notfound"
  /\ \E i \in 1..Len(store) : store[i].k[1] = "hist"
  /\ \E i \in 1..Len(store) : store[i].k[1] = "info"
  /\ \A i \in 1..Len(store) : store[i].k # RequestKey(last)

(***************************************************************************)
(* services/market.py : fetch_quotes, one step per symbol and per pause.   *)
(***************************************************************************)
\* The symbol lists and chunk sizes fetch_quotes is called with.  The empty
\* string is a symbol the filter `if s` drops.
QuoteInputs ==
  { <<>>,
    << <<>> >>,
    << <<"a">> >>,
    << <<" ", "A", " ">>, <<"b", ".", "x">> >>,
    << <<"b", ".", "x">>, <<>>, <<"a">> >>,
    << <<"a">>, <<"b", ".", "x">>, <<"a">> >> }
ChunkSizes == {0, 1, 2}

\* What fast_info gives for a candidate: the values the lookups of price,
\* previous close, currency and market cap end with (absent, zero or a
\* number).  Prices are in units of 0.00001, so that 30 is 0.0003.
Fast(price, prev, curr, mcap) ==
  [price |-> price, prev |-> prev, curr |-> curr, mcap |-> mcap]
FastQuotes ==
  { Fast(None, None, None, None),
    Fast(Some(30), Some(10), Some("INR"), Some(7)),
    Fast(Some(30), Some(0), None, Some(0)),
    Fast(Some(30), None, Some("INR"), None),
    Fast(Some(0), Some(10), None, None),
    Fast(None, Some(20), Some("INR"), Some(7)) }

\* The closes of the 5d history read when fast_info has no price; None for
\* a call that returns no frame.
QuoteHistories ==
  {None, Some(<<>>), Some(<<30>>), Some(<<3, 19>>), Some(<<0, 30>>)}

\* not x, for an optional number
Falsy(x) == IF x = None THEN TRUE ELSE x[1] = 0

\* [_normalize_symbol(s) for s in symbols if s]
RECURSIVE NormalizeAll(_)
NormalizeAll(symbols) ==
  IF symbols = <<>> THEN <<>>
  ELSE IF Head(symbols) = <<>> THEN NormalizeAll(Tail(symbols))
  ELSE <<normalize_symbol(Head(symbols))>> \o NormalizeAll(Tail(symbols))

\* A wrong chunk test: a chunk is closed one symbol too late.
RECURSIVE ChunkLoopOver(_, _, _)
ChunkLoopOver(seq, size, buf) ==
  IF seq = <<>>
  THEN IF buf # <<>> THEN <<buf>> ELSE <<>>
  ELSE LET b == Append(buf, Head(seq)) IN
       IF Len(b) > size
       THEN <<b>> \o ChunkLoopOver(Tail(seq), size, <<>>)
       ELSE ChunkLoopOver(Tail(seq), size, b)

\* _chunks: the loop with its buffer
RECURSIVE ChunkLoop(_, _, _)
ChunkLoop(seq, size, buf) ==
  IF seq = <<>>
  THEN IF buf # <<>> THEN <<buf>> ELSE <<>>
  ELSE LET b == Append(buf, Head(seq)) IN
       IF Len(b) >= size
       THEN <<b>> \o ChunkLoop(Tail(seq), size, <<>>)
       ELSE ChunkLoop(Tail(seq), size, b)

chunks(seq, size) == ChunkLoop(seq, size, <<>>)

\* A wrong rounding: the quotient cut off instead of rounded.
FloorDiv(n, d) == n \div d

\* round(x, ndigits) of the quotient n / d (d > 0) counted in units of the
\* last kept digit: the nearest integer, a tie going to the even one.
RoundDiv(n, d) ==
  LET f == n \div d
      r == n - f * d
  IN IF 2 * r < d THEN f
     ELSE IF 2 * r > d THEN f + 1
     ELSE IF f % 2 = 0 THEN f ELSE f + 1

\* A wrong default: unresolved numbers reported as zero.
ZeroItem(sym, ts) ==
  [symbol |-> sym, price |-> Some(0), currency |-> None, previous_close |-> Some(0),
   change |-> Some(0), change_pct |-> Some(0), market_cap |-> Some(0), ts |-> ts]

\* The item a symbol starts with.
BlankItem(sym, ts) ==
  [symbol |-> sym, price |-> None, currency |-> None, previous_close |-> None,
   change |-> None, change_pct |-> None, market_cap |-> None, ts |-> ts]

\* The body of the try block for a candidate whose lookups do not raise:
\* fast_info gave fi, and h is the history read when fi has no price.
\* change is rounded to 4 decimals (units of 0.0001) and change_pct to 3
\* decimals (units of 0.001 percent).
FillItem(item, fi, h) ==
  LET useH == Falsy(fi.price) /\ h # None /\ h[1] # <<>>
      price == IF useH THEN Some(h[1][Len(h[1])]) ELSE fi.price
      prev == IF useH
              THEN IF Len(h[1]) > 1 THEN Some(h[1][Len(h[1]) - 1]) ELSE None
              ELSE fi.prev
      i1 == IF price # None THEN [item EXCEPT !.price = price] ELSE item
      i2 == IF prev # None THEN [i1 EXCEPT !.previous_close = prev] ELSE i1
      i3 == IF i2.price # None /\ i2.previous_close # None /\ i2.previous_close[1] # 0
            THEN LET ch == RoundDiv(i2.price[1] - i2.previous_close[1], 10) IN
                 [i2 EXCEPT !.change = Some(ch),
                            !.change_pct =
                              Some(RoundDiv(1000000 * ch, i2.previous_close[1]))]
            ELSE i2
      i4 == IF fi.curr # None THEN [i3 EXCEPT !.currency = fi.curr] ELSE i3
  IN IF ~Falsy(fi.mcap) THEN [i4 EXCEPT !.market_cap = fi.mcap] ELSE i4

\* The candidate loop of one symbol: the lookups of the first k candidates
\* raise, the next candidate, if there is one, gives fi and h.
QuoteItem(sym, ts, k, fi, h) ==
  IF k >= Len(Candidates(sym))
  THEN BlankItem(sym, ts)
  ELSE FillItem(BlankItem(sym, ts), fi, h)

\* fetch_quotes is called: out, now and the normalised symbols are set up.
quotes_start(symbols, chunk_size) ==
  LET syms == NormalizeAll(symbols)
      cs == chunks(syms, chunk_size)
  IN
  /\ q.pc = "idle"
  /\ q' = [pc |-> IF cs = <<>> THEN "done" ELSE "batch",
           symbols |-> symbols, chunk_size |-> chunk_size,
           batches |-> cs, b |-> 1, i |-> 1,
           out |-> <<>>, ts |-> now, sleeps |-> 0, tried |-> <<>>]
  /\ UNCHANGED <<ind, th, now, store, last, setAt, setRun, fetched, summary>>

\* One symbol of the current batch is resolved and its item appended.
quote_symbol(k, fi, h) ==
  /\ q.pc = "batch"
  /\ LET sym == q.batches[q.b][q.i]
         cands == Candidates(sym)
     IN /\ k \in 0..Len(cands)
        /\ k = Len(cands) => (fi = Fast(None, None, None, None) /\ h = None)
        /\ ~Falsy(fi.price) => h = None
        /\ q' = [q EXCEPT
                   !.out = Append(@, QuoteItem(sym, q.ts, k, fi, h)),
                   !.tried = Append(@, [cands |-> SubSeq(cands, 1, IF k < Len(cands) THEN k + 1 ELSE k),
                                        raised |-> k]),
                   !.i = @ + 1,
                   !.pc = IF q.i = Len(q.batches[q.b]) THEN "sleep" ELSE "batch"]
  /\ UNCHANGED <<ind, th, now, store, last, setAt, setRun, fetched, summary>>

\* time.sleep after a batch, then the next batch or the return.
quote_sleep ==
  /\ q.pc = "sleep"
  /\ q' = [q EXCEPT !.sleeps = @ + 1, !.b = @ + 1, !.i = 1,
                    !.pc = IF q.b = Len(q.batches) THEN "done" ELSE "batch"]
  /\ UNCHANGED <<ind, th, now, store, last, setAt, setRun, fetched, summary>>

\* The caller takes the returned list.
quotes_return ==
  /\ q.pc = "done"
  /\ q' = [pc |-> "idle"]
  /\ UNCHANGED <<ind, th, now, store, last, setAt, setRun, fetched, summary>>

NextQuotes ==
  \/ \E symbols \in QuoteInputs, chunk_size \in ChunkSizes :
       quotes_start(symbols, chunk_size)
  \/ \E k \in 0..3, fi \in FastQuotes, h \in QuoteHistories : quote_symbol(k, fi, h)
  \/ quote_sleep
  \/ quotes_return

SpecQuotes == InitResolver /\ [][NextQuotes]_vars

(***************************************************************************)
(* Properties of fetch_quotes.                                             *)
(***************************************************************************)
\* C8: whatever the provider's lookups raise, fetch_quotes returns exactly
\* one quote per non-empty input symbol, in input order, and the quote of a
\* symbol all of whose candidates failed has price, previous_close, change,
\* change_pct, currency and market_cap absent.
C8_OneQuotePerSymbol ==
  q.pc = "done" =>
    LET kept == SelectSeq(q.symbols, LAMBDA x : x # <<>>) IN
    /\ Len(q.out) = Len(kept)
    /\ \A i \in 1..Len(kept) :
         LET sym == Upper(Strip(kept[i]))
             ncand == IF \E j \in 1..Len(sym) : sym[j] = "." THEN 1 ELSE 3
         IN /\ q.out[i].symbol = sym
            /\ q.tried[i].raised = ncand =>
                 /\ q.out[i].price = None
                 /\ q.out[i].previous_close = None
                 /\ q.out[i].change = None
                 /\ q.out[i].change_pct = None
                 /\ q.out[i].currency = None
                 /\ q.out[i].market_cap = None

\* Of "b.x", "" and "a" the first failed on its only candidate and the last
\* was priced by its third candidate: two quotes, in that order.
C8_Witness ==
  /\ q.pc = "done"
  /\ q.symbols = << <<"b", ".", "x">>, <<>>, <<"a">> >>
  /\ Len(q.out) = 2
  /\ q.tried[1].raised = 1 /\ q.out[1].price = None
  /\ q.tried[2].raised = 2 /\ q.out[2].price = Some(30)

\* C15: in fetch_quotes the candidate ladder of a symbol advances whenever
\* the current candidate yields no price, not only when its lookup raises: a
\* quote has no price only after every candidate of its symbol was tried.
C15_NoPriceTriesAll ==
  q.pc # "idle" =>
    \A i \in 1..Len(q.out) :
      q.out[i].price = None =>
        LET sym == q.out[i].symbol IN
        q.tried[i].cands =
          IF \E j \in 1..Len(sym) : sym[j] = "."
          THEN <<sym>>
          ELSE <<sym, sym \o <<".", "N", "S">>, sym \o <<".", "B", "O">> >>

\* Whether a quote's change and change_pct must be there.
HasChange(item) ==
  /\ item.price # None
  /\ item.previous_close # None
  /\ item.previous_close[1] # 0

\* C16 as stated: change and change_pct are present exactly when price and a
\* non-zero previous_close are, and then change = price - previous_close and
\* change_pct = 100 * change / previous_close.  (price and previous_close
\* in units of 0.00001, change of 0.0001, change_pct of 0.001 percent.)
C16_ChangeExact ==
  q.pc # "idle" =>
    \A i \in 1..Len(q.out) :
      LET it == q.out[i] IN
      /\ it.change # None <=> HasChange(it)
      /\ it.change_pct # None <=> HasChange(it)
      /\ HasChange(it) =>
           /\ 10 * it.change[1] = it.price[1] - it.previous_close[1]
           /\ it.change_pct[1] * it.previous_close[1] = 1000000 * it.change[1]

\* |x|
Abs(x) == IF x < 0 THEN -x ELSE x

\* C16: change and change_pct are present exactly when price and a non-zero
\* previous_close are; then change is price - previous_close rounded to 4
\* decimals and change_pct is 100 * change / previous_close rounded to 3
\* decimals (each within half a unit of its last digit).
C16_ChangeRounded ==
  q.pc # "idle" =>
    \A i \in 1..Len(q.out) :
      LET it == q.out[i] IN
      /\ it.change # None <=> HasChange(it)
      /\ it.change_pct # None <=> HasChange(it)
      /\ HasChange(it) =>
           /\ 2 * Abs(10 * it.change[1] - (it.price[1] - it.previous_close[1])) <= 10
           /\ 2 * Abs(it.change_pct[1] * it.previous_close[1] - 1000000 * it.change[1])
                 <= Abs(it.previous_close[1])

\* A returned quote whose change had to be rounded up, next to one without
\* change because its previous close is zero.
C16_Witness ==
  /\ q.pc = "done"
  /\ \E i \in 1..Len(q.out) :
        /\ q.out[i].price = Some(19) /\ q.out[i].previous_close = Some(3)
        /\ q.out[i].change = Some(2) /\ q.out[i].change_pct = Some(666667)
  /\ \E i \in 1..Len(q.out) :
        /\ q.out[i].price # None /\ q.out[i].previous_close = Some(0)
        /\ q.out[i].change = None

\* C17: with chunk_size >= 1 the symbols are resolved in input order in
\* chunks of exactly chunk_size (the last may be shorter), with one pause
\* after each chunk, the last included: while a chunk is being resolved
\* the pauses taken are the full chunks behind it, a pause starts only on a
\* complete chunk, and at the return n symbols have caused
\* ceil(n / chunk_size) pauses, none for an empty input.
C17_ChunksAndPauses ==
  (q.pc # "idle" /\ q.chunk_size >= 1) =>
    LET kept == SelectSeq(q.symbols, LAMBDA x : x # <<>>)
        n == Len(kept)
        c == q.chunk_size
        done == Len(q.out)
    IN /\ done <= n
       /\ \A i \in 1..done : q.out[i].symbol = Upper(Strip(kept[i]))
       /\ q.pc = "batch" => done < n /\ q.sleeps = done \div c
       /\ q.pc = "sleep" =>
            /\ q.sleeps = (done - 1) \div c
            /\ done = IF (q.sleeps + 1) * c < n THEN (q.sleeps + 1) * c ELSE n
       /\ q.pc = "done" =>
            /\ done = n
            /\ q.sleeps = (n + c - 1) \div c
            /\ n = 0 => q.sleeps = 0

\* Three symbols in chunks of two: two pauses, the second after a chunk of
\* one.
C17_Witness ==
  /\ q.pc = "done" /\ q.chunk_size = 2
  /\ Len(q.out) = 3 /\ q.sleeps = 2

(***************************************************************************)
(* The three operations that build a candidate list, side by side.  A      *)
(* caller runs one at a time.  fetch_quotes neither reads nor writes the   *)
(* cache, so its runs are followed from the empty cache.  The provider     *)
(* has one series and one fast_info dict to give (Ticker.info only fails): *)
(* which candidates are called depends on whether an answer is empty, not  *)
(* on what it holds.                                                       *)
(***************************************************************************)
NextCandidates ==
  \/ Return
  \/ /\ q.pc = "idle"
     /\ \E symbol \in RawSymbols, rq \in Requests, n \in 1..MaxCalls,
           raw \in {Raise, Ret(None), Ret(Some(<<1>>))} :
          fetch_history(symbol, rq[1], rq[2], n, raw)
  \/ /\ q.pc = "idle"
     /\ \E symbol \in RawSymbols, m \in 0..Len(Candidates(<<"A">>)),
           nothing \in {Raise, Ret(None), Ret(Some(EmptyMap))},
           fi \in ProviderFast, full \in {Raise, Ret(None)} :
          fetch_info(symbol, m, nothing, fi, full)
  \/ /\ Ready /\ store = <<>>
     /\ \E symbols \in QuoteInputs, chunk_size \in ChunkSizes :
          quotes_start(symbols, chunk_size)
  \/ \E k \in 0..3, fi \in FastQuotes, h \in QuoteHistories : quote_symbol(k, fi, h)
  \/ quote_sleep
  \/ quotes_return

SpecCandidates == InitResolver /\ [][NextCandidates]_vars

\* The candidates claimed for a normalised symbol.
OneOrThree(sym) ==
  IF \E i \in 1..Len(sym) : sym[i] = "."
  THEN <<sym>>
  ELSE <<sym, sym \o <<".", "N", "S">>, sym \o <<".", "B", "O">> >>

\* s is the beginning of t
IsPrefix(s, t) == Len(s) <= Len(t) /\ s = SubSeq(t, 1, Len(s))

\* The distinct candidates of a call log, in the order of their first call.
RECURSIVE FirstCalls(_)
FirstCalls(calls) ==
  IF calls = <<>> THEN <<>>
  ELSE LET rest == FirstCalls(SubSeq(calls, 1, Len(calls) - 1))
           c == calls[Len(calls)].cand
       IN IF c \in Range(rest) THEN rest ELSE Append(rest, c)

\* C14: fetch_history, fetch_info and fetch_quotes send the provider only
\* candidates of the list claimed for the normalised symbol, the symbol
\* itself when it contains a dot and else the symbol, symbol.NS, symbol.BO,
\* in that order without skipping; an operation that finds nothing has gone
\* through the whole list.
C14_CandidateLists ==
  /\ last.op = "fetch_history" =>
       LET exp == OneOrThree(Upper(Strip(last.symbol))) IN
       /\ IsPrefix(FirstCalls(last.calls), exp)
       /\ \A i, j \in 1..Len(last.calls) :
            (i < j /\ last.calls[i].cand = last.calls[j].cand) =>
               \A m \in i..j : last.calls[m].cand = last.calls[i].cand
       /\ last.outcome = "notfound" => FirstCalls(last.calls) = exp
  /\ last.op = "fetch_info" =>
       LET exp == OneOrThree(Upper(Strip(last.symbol))) IN
       /\ IsPrefix(last.calls, exp)
       /\ last.outcome = "error" => last.calls = exp
  /\ q.pc # "idle" =>
       \A i \in 1..Len(q.out) :
         LET exp == OneOrThree(q.out[i].symbol) IN
         /\ IsPrefix(q.tried[i].cands, exp)
         /\ q.tried[i].raised = Len(q.tried[i].cands) => q.tried[i].cands = exp

\* fetch_quotes went through the three candidates of "A" and the single
\* candidate of "B.X", all of them raising.
C14_Witness ==
  /\ q.pc = "done"
  /\ \E i \in 1..Len(q.out) :
        /\ q.out[i].symbol = <<"A">>
        /\ q.tried[i].raised = 3
        /\ q.tried[i].cands =
             << <<"A">>, <<"A", ".", "N", "S">>, <<"A", ".", "B", "O">> >>
  /\ \E i \in 1..Len(q.out) :
        /\ q.out[i].symbol = <<"B", ".", "X">>
        /\ q.tried[i].raised = 1
        /\ q.tried[i].cands = << <<"B", ".", "X">> >>

(***************************************************************************)
(* services/market.py : rule_based_summary.  Metrics are in hundredths    *)
(* (an RSI of 50 is 5000, an ROE of 0.15 is 15); None is an absent metric. *)
(***************************************************************************)
RsiValues == {None, Some(3400), Some(3500), Some(4000), Some(4500), Some(5000),
              Some(6000), Some(6500), Some(7000), Some(7100)}
HistValues == {None, Some(0 - 50), Some(0), Some(50)}
PeValues == {None, Some(0 - 500), Some(0), Some(2000), Some(3500)}
RoeValues == {None, Some(0), Some(12), Some(15)}
DeValues == {None, Some(0 - 100), Some(0), Some(5000), Some(10000)}

\* score += d; reasons.append(r)
Fire(acc, d, r) == [score |-> acc.score + d, reasons |-> Append(acc.reasons, r)]

\* A wrong RSI rule: the neutral zone excludes its lower end.
RsiRuleOpen(acc, rsi) ==
  IF rsi = None THEN acc
  ELSE IF 4500 < rsi[1] /\ rsi[1] <= 6000
       THEN Fire(acc, 1, "RSI in neutral-to-positive zone")
  ELSE IF rsi[1] < 3500
       THEN Fire(acc, 0 - 1, "RSI indicates oversold (bearish risk)")
  ELSE IF rsi[1] > 7000
       THEN Fire(acc, 0 - 1, "RSI indicates overbought (pullback risk)")
  ELSE acc

RsiRule(acc, rsi) ==
  IF rsi = None THEN acc
  ELSE IF 4500 <= rsi[1] /\ rsi[1] <= 6000
       THEN Fire(acc, 1, "RSI in neutral-to-positive zone")
  ELSE IF rsi[1] < 3500
       THEN Fire(acc, 0 - 1, "RSI indicates oversold (bearish risk)")
  ELSE IF rsi[1] > 7000
       THEN Fire(acc, 0 - 1, "RSI indicates overbought (pullback risk)")
  ELSE acc

MacdRule(acc, hist) ==
  IF hist # None /\ hist[1] > 0
  THEN Fire(acc, 1, "MACD histogram positive (bullish momentum)")
  ELSE acc

PeRule(acc, pe) ==
  IF ~Falsy(pe) /\ pe[1] > 0 /\ pe[1] < 3500
  THEN Fire(acc, 1, "Reasonable P/E valuation")
  ELSE acc

RoeRule(acc, roe) ==
  IF ~Falsy(roe) /\ roe[1] > 12
  THEN Fire(acc, 1, "Healthy ROE (>12%)")
  ELSE acc

\* A scorer without the debt rule.
NoDebtRule(acc, de) == acc

DebtRule(acc, de) ==
  IF de # None /\ de[1] < 10000
  THEN Fire(acc, 1, "Manageable debt (D/E < 100)")
  ELSE acc

Signal(score) ==
  IF score >= 4 THEN "Strong Buy"
  ELSE IF score = 3 THEN "Buy"
  ELSE IF score = 2 THEN "Hold"
  ELSE IF score = 1 THEN "Weak Hold"
  ELSE "Sell"

\* rule_based_summary, for the metrics technicals and fundamentals gave it.
rule_based_summary ==
  LET a0 == [score |-> 0, reasons |-> <<>>]
      a5 == DebtRule(RoeRule(PeRule(MacdRule(RsiRule(a0, summary.rsi), summary.hist),
                                    summary.pe), summary.roe), summary.de)
  IN
  /\ summary.op = "call"
  /\ summary' = [summary EXCEPT !.op = "summary", !.score = a5.score,
                                !.signal = Signal(a5.score), !.reasons = a5.reasons]
  /\ UNCHANGED <<ind, th, now, store, last, setAt, setRun, fetched, q>>

\* The scorer is called with any combination of present and absent metrics.
InitSummary ==
  /\ now = 0
  /\ store = <<>>
  /\ last = [op |-> "idle"]
  /\ setAt = <<>>
  /\ setRun = [ok |-> FALSE, keys |-> <<>>]
  /\ fetched = None
  /\ q = [pc |-> "idle"]
  /\ ind = [op |-> "idle"]
  /\ th = [t \in Threads |-> [pc |-> "idle"]]
  /\ \E rsi \in RsiValues, hist \in HistValues, pe \in PeValues, roe \in RoeValues,
        de \in DeValues :
       summary = [op |-> "call", rsi |-> rsi, hist |-> hist, pe |-> pe, roe |-> roe,
                  de |-> de, score |-> 0, signal |-> "", reasons |-> <<>>]

NextSummary == rule_based_summary

SpecSummary == InitSummary /\ [][NextSummary]_vars

\* The rule table: whether each row fires, its score delta and its reason.
TableFired(m) ==
  << m.rsi # None /\ 4500 <= m.rsi[1] /\ m.rsi[1] <= 6000,
     m.rsi # None /\ m.rsi[1] < 3500,
     m.rsi # None /\ m.rsi[1] > 7000,
     m.hist # None /\ m.hist[1] > 0,
     m.pe # None /\ 0 < m.pe[1] /\ m.pe[1] < 3500,
     m.roe # None /\ m.roe[1] > 12,
     m.de # None /\ m.de[1] < 10000 >>

TableDelta == <<1, 0 - 1, 0 - 1, 1, 1, 1, 1>>

TableReason ==
  << "RSI in neutral-to-positive zone",
     "RSI indicates oversold (bearish risk)",
     "RSI indicates overbought (pullback risk)",
     "MACD histogram positive (bullish momentum)",
     "Reasonable P/E valuation",
     "Healthy ROE (>12%)",
     "Manageable debt (D/E < 100)" >>

RECURSIVE TableScore(_, _)
TableScore(fired, i) ==
  IF i = 0 THEN 0
  ELSE TableScore(fired, i - 1) + (IF fired[i] THEN TableDelta[i] ELSE 0)

RECURSIVE TableReasons(_, _)
TableReasons(fired, i) ==
  IF i = 0 THEN <<>>
  ELSE TableReasons(fired, i - 1) \o (IF fired[i] THEN <<TableReason[i]>> ELSE <<>>)

IsC9Input ==
  /\ summary.op = "summary"
  /\ summary.rsi = Some(5000) /\ summary.hist = Some(50) /\ summary.pe = Some(2000)
  /\ summary.roe = Some(15) /\ summary.de = Some(5000)

\* C9 as stated: RSI 50, MACD histogram 0.5, P/E 20, ROE 0.15 and D/E 50
\* give score 4, signal "Strong Buy" and exactly 4 reasons in table order.
C9_ScoreFour ==
  IsC9Input =>
    /\ summary.score = 4
    /\ summary.signal = "Strong Buy"
    /\ Len(summary.reasons) = 4

\* C9, amended: these inputs fire all five positive rules: score 5, signal
\* "Strong Buy" and exactly 5 reasons, in the order of the rule table.
C9_ScoreFive ==
  IsC9Input =>
    /\ summary.score = 5
    /\ summary.signal = "Strong Buy"
    /\ summary.reasons = <<TableReason[1], TableReason[4], TableReason[5],
                           TableReason[6], TableReason[7]>>

C9_Witness == IsC9Input /\ summary.score = 5

\* C10: for every combination of present and absent metrics the score is
\* the sum of the deltas of the rules that fire, an absent metric adds no
\* point and no reason, the reasons are those of the fired rules in table
\* order, and the signal is Strong Buy for a score >= 4, Buy for 3, Hold
\* for 2, Weak Hold for 1 and Sell otherwise.
C10_ScoreIsRuleSum ==
  summary.op = "summary" =>
    LET fired == TableFired(summary) IN
    /\ summary.score = TableScore(fired, 7)
    /\ summary.reasons = TableReasons(fired, 7)
    /\ summary.signal =
         (CASE summary.score >= 4 -> "Strong Buy"
            [] summary.score = 3 -> "Buy"
            [] summary.score = 2 -> "Hold"
            [] summary.score = 1 -> "Weak Hold"
            [] OTHER -> "Sell")
    /\ (summary.rsi = None /\ summary.hist = None /\ summary.pe = None
          /\ summary.roe = None /\ summary.de = None) =>
         (summary.score = 0 /\ summary.reasons = <<>> /\ summary.signal = "Sell")

\* An RSI at the lower end of the neutral zone with no histogram and no
\* P/E: two rules besides it fire, the reasons skip the absent metrics.
C10_Witness ==
  /\ summary.op = "summary"
  /\ summary.rsi = Some(4500) /\ summary.hist = None /\ summary.pe = None
  /\ summary.roe = Some(15) /\ summary.de = Some(0)
  /\ summary.score = 3 /\ summary.signal = "Buy"
  /\ Len(summary.reasons) = 3

(***************************************************************************)
(* services/indicators.py : the RSI part of compute_all_indicators.        *)
(* A pandas Series is a sequence whose undefined elements (NaN) are None.   *)
(***************************************************************************)
\* The close series drawn: up to MaxCloses closes chosen freely, or a
\* lead-in of fourteen closes, going up and down or flat, followed by up to
\* MaxTail closes chosen freely.
MaxCloses == 13
MaxTail == 6
CloseValues == {1, 2}
LeadIns == { <<1, 2, 1, 2, 1, 2, 1, 2, 1, 2, 1, 2, 1, 2>>,
             <<1, 1, 1, 1, 1, 1, 1, 1, 1, 1, 1, 1, 1, 1>> }

\* rsi(close, period=14)
rsi_period == 14

\* close.diff(): no difference for the first element
Diff(close) ==
  [i \in 1..Len(close) |-> IF i = 1 THEN None ELSE Some(close[i] - close[i - 1])]

\* delta.clip(lower=0) and -delta.clip(upper=0), element by element
Gains(d) ==
  [i \in 1..Len(d) |-> IF d[i] = None THEN None
                        ELSE Some(IF d[i][1] > 0 THEN d[i][1] ELSE 0)]
Losses(d) ==
  [i \in 1..Len(d) |-> IF d[i] = None THEN None
                        ELSE Some(IF d[i][1] < 0 THEN -d[i][1] ELSE 0)]

\* x[a] + ... + x[b] of defined elements
RECURSIVE SumFrom(_, _, _)
SumFrom(x, a, b) == IF a > b THEN 0 ELSE x[a][1] + SumFrom(x, a + 1, b)

\* A wrong window: a value as soon as one element of the window is defined.
RollingAny(x, w, i) ==
  LET def == {j \in 1..i : j > i - w /\ x[j] # None}
      lo == IF def = {} THEN i + 1 ELSE CHOOSE j \in def : \A m \in def : j <= m
  IN IF def = {} THEN None ELSE Some(SumFrom(x, lo, i))

\* x.rolling(window=w).mean() at position i, as the sum of the window (the
\* two means of rsi share the divisor w): undefined unless the window holds
\* w defined elements.
Rolling(x, w, i) ==
  IF i < w THEN None
  ELSE IF \E j \in (i - w + 1)..i : x[j] = None THEN None
  ELSE Some(SumFrom(x, i - w + 1, i))

\* rsi: 100 - 100 / (1 + gain / loss), that is 100 * gain / (gain + loss),
\* kept as the pair <<gain, gain + loss>>; undefined where gain or loss is,
\* and where loss is 0 (replaced by NaN).
rsi_val(close) ==
  LET n == Len(close)
      d == SubSeq(Diff(close), 1, n)
      gain == SubSeq(Gains(d), 1, n)
      loss == SubSeq(Losses(d), 1, n)
  IN
  [i \in 1..Len(close) |->
     LET g == Rolling(gain, rsi_period, i)
         l == Rolling(loss, rsi_period, i)
     IN IF g = None THEN None
        ELSE IF l = None THEN None
        ELSE IF l[1] = 0 THEN None
        ELSE Some(<<g[1], g[1] + l[1]>>)]

\* .round(2): the RSI in hundredths
Round2(r) ==
  [i \in 1..Len(r) |-> IF r[i] = None THEN None
                        ELSE Some(RoundDiv(10000 * r[i][1][1], r[i][1][2]))]

\* .dropna().tolist()
RECURSIVE DropNa(_)
DropNa(r) ==
  IF r = <<>> THEN <<>>
  ELSE IF Head(r) = None THEN DropNa(Tail(r))
  ELSE <<Head(r)[1]>> \o DropNa(Tail(r))

\* compute_all_indicators on the closes drawn: out['rsi']
compute_all_indicators ==
  /\ ind.op = "call"
  /\ LET r == Round2(rsi_val(ind.close))
         r_clean == DropNa(r)
     IN ind' = [op |-> "done", close |-> ind.close, series |-> r_clean,
                latest |-> IF Len(r_clean) # 0
                           THEN Some(r_clean[Len(r_clean)]) ELSE None]
  /\ UNCHANGED <<now, store, last, setAt, setRun, fetched, q, summary, th>>

InitIndicators ==
  /\ now = 0
  /\ store = <<>>
  /\ last = [op |-> "idle"]
  /\ setAt = <<>>
  /\ setRun = [ok |-> FALSE, keys |-> <<>>]
  /\ fetched = None
  /\ q = [pc |-> "idle"]
  /\ summary = [op |-> "idle"]
  /\ th = [t \in Threads |-> [pc |-> "idle"]]
  /\ \/ \E n \in 0..MaxCloses : \E c \in [1..n -> CloseValues] :
          ind = [op |-> "call", close |-> c]
     \/ \E lead \in LeadIns, n \in 0..MaxTail : \E c \in [1..n -> CloseValues] :
          ind = [op |-> "call", close |-> lead \o c]

NextIndicators == compute_all_indicators

SpecIndicators == InitIndicators /\ [][NextIndicators]_vars

\* C19: for every close series shorter than 14, compute_all_indicators
\* returns an empty RSI series and no RSI latest; for every series the RSI
\* latest is the last element of the returned RSI series and is absent
\* exactly when that series is empty.
C19_RsiLatest ==
  ind.op = "done" =>
    /\ Len(ind.close) < 14 => ind.series = <<>> /\ ind.latest = None
    /\ ind.latest = None <=> ind.series = <<>>
    /\ ind.series # <<>> => ind.latest = Some(ind.series[Len(ind.series)])

\* Thirteen closes that rise and fall gave no RSI.
C19_Witness ==
  /\ ind.op = "done" /\ Len(ind.close) = 13
  /\ \E i, j \in 2..13 : ind.close[i] > ind.close[i - 1] /\ ind.close[j] < ind.close[j - 1]
  /\ ind.series = <<>> /\ ind.latest = None

(***************************************************************************)
(* utils/cache.py under concurrent callers.  The module-level cache is     *)
(* shared by the request threads and TTLCache takes no lock, so the        *)
(* statements of get and set of different callers interleave: each action  *)
(* below is one step of one caller t.                                      *)
(***************************************************************************)
ThreadVals == {"v1"}

\* t calls cache.set(k, v)
call_set(t, k, v) ==
  /\ th[t].pc = "idle"
  /\ th' = [th EXCEPT ![t] = [pc |-> "set_len", key |-> k, val |-> v]]
  /\ UNCHANGED <<now, store, last, setAt, setRun, fetched, q, summary, ind>>

\* if len(self._store) >= self.maxsize:
set_len(t) ==
  /\ th[t].pc = "set_len"
  /\ th' = [th EXCEPT ![t].pc = IF Len(store) >= maxsize THEN "set_min" ELSE "set_put"]
  /\ UNCHANGED <<now, store, last, setAt, setRun, fetched, q, summary, ind>>

\* min(self._store.items(), ...) starts to iterate: min of an empty dict
\* raises ValueError.
set_min(t) ==
  /\ th[t].pc = "set_min"
  /\ th' = [th EXCEPT ![t] =
              IF store = <<>>
              THEN [pc |-> "error"]
              ELSE [pc |-> "set_min_end", key |-> th[t].key, val |-> th[t].val,
                    size |-> Len(store)]]
  /\ UNCHANGED <<now, store, last, setAt, setRun, fetched, q, summary, ind>>

\* The iteration ends: it raises RuntimeError when the dict changed size
\* meanwhile, else min gives the oldest key.
set_min_end(t) ==
  /\ th[t].pc = "set_min_end"
  /\ th' = [th EXCEPT ![t] =
              IF Len(store) # th[t].size
              THEN [pc |-> "error"]
              ELSE [pc |-> "set_pop", key |-> th[t].key, val |-> th[t].val,
                    oldest_key |-> OldestKey(store)]]
  /\ UNCHANGED <<now, store, last, setAt, setRun, fetched, q, summary, ind>>

\* self._store.pop(oldest_key, None)
set_pop(t) ==
  /\ th[t].pc = "set_pop"
  /\ store' = Pop(store, th[t].oldest_key)
  /\ th' = [th EXCEPT ![t] = [pc |-> "set_put", key |-> th[t].key, val |-> th[t].val]]
  /\ UNCHANGED <<now, last, setAt, setRun, fetched, q, summary, ind>>

\* self._store[key] = (time(), value), and set returns
set_put(t) ==
  /\ th[t].pc = "set_put"
  /\ store' = Put(store, th[t].key, now, th[t].val)
  /\ th' = [th EXCEPT ![t] = [pc |-> "idle"]]
  /\ UNCHANGED <<now, last, setAt, setRun, fetched, q, summary, ind>>

\* t calls cache.get(k)
call_get(t, k) ==
  /\ th[t].pc = "idle"
  /\ th' = [th EXCEPT ![t] = [pc |-> "get_item", key |-> k]]
  /\ UNCHANGED <<now, store, last, setAt, setRun, fetched, q, summary, ind>>

\* item = self._store.get(key); if not item: return None
get_item(t) ==
  /\ th[t].pc = "get_item"
  /\ LET i == Find(store, th[t].key) IN
     th' = [th EXCEPT ![t] =
              IF i = 0
              THEN [pc |-> "idle"]
              ELSE [pc |-> "get_check", key |-> th[t].key, ts |-> store[i].ts]]
  /\ UNCHANGED <<now, store, last, setAt, setRun, fetched, q, summary, ind>>

\* if time() - ts > self.ttl: self._store.pop(key, None); and get returns
get_check(t) ==
  /\ th[t].pc = "get_check"
  /\ store' = IF now - th[t].ts > ttl THEN Pop(store, th[t].key) ELSE store
  /\ th' = [th EXCEPT ![t] = [pc |-> "idle"]]
  /\ UNCHANGED <<now, last, setAt, setRun, fetched, q, summary, ind>>

NextThreads ==
  \/ Tick
  \/ \E t \in Threads, k \in CacheKeys, v \in ThreadVals : call_set(t, k, v)
  \/ \E t \in Threads : set_len(t)
  \/ \E t \in Threads : set_min(t)
  \/ \E t \in Threads : set_min_end(t)
  \/ \E t \in Threads : set_pop(t)
  \/ \E t \in Threads : set_put(t)
  \/ \E t \in Threads, k \in CacheKeys : call_get(t, k)
  \/ \E t \in Threads : get_item(t)
  \/ \E t \in Threads : get_check(t)

SpecThreads == InitCache /\ [][NextThreads]_vars

\* C11: the accesses of concurrent callers are serialized, each get and set
\* taking effect as one atomic step: under any interleaving the store holds
\* at most maxsize entries, and no set is lost to an error in the middle of
\* it.
C11_SerializedAccess ==
  /\ Len(store) <= maxsize
  /\ \A t \in Threads : th[t].pc # "error"

====
